---- MODULE Spec2Model ----
(***************************************************************************)
(* State-machine model of package render of go-tiled: the viewport         *)
(* (Bounds), the tile image cache (getTileImage), the layer compositor     *)
(* (_renderTile, _renderLayer) and the Renderer's public operations, with  *)
(* the hexagonal geometry engine of hexagonal.go.                          *)
(***************************************************************************)
EXTENDS Integers, Sequences, FiniteSets, TLC

\* ------------------------------------------------------------------ bounds
MaxWidth == 2          \* map widths 1..MaxWidth
MaxHeight == 2         \* map heights 1..MaxHeight
MaxOffset == 2         \* AddOffset is not called once an offset would pass this
MaxArg == 2            \* SetLimit arguments range over -1..MaxArg
MaxDelta == 1          \* AddOffset arguments range over -MaxDelta..MaxDelta

\* ------------------------------------------------------- Go integer helpers
\* Go's / and % truncate toward zero.
GoDiv(a, b) == IF a >= 0 THEN a \div b ELSE -((-a) \div b)
GoMod(a, b) == a - b * GoDiv(a, b)

Max2(a, b) == IF a >= b THEN a ELSE b

\* --------------------------------------------------------------- image data
\* An image is a matrix of pixel values, a sequence of rows; nil is NilImage.
NilImage == <<>>

Reverse(s) == [k \in 1..Len(s) |-> s[Len(s) + 1 - k]]

\* imaging.FlipH: mirror every row.
FlipH(img) == [row \in 1..Len(img) |-> Reverse(img[row])]
\* imaging.FlipV: mirror the rows.
FlipV(img) == Reverse(img)
\* imaging.Rotate90: rotate 90 degrees counter-clockwise.
Rotate90(img) ==
    LET h == Len(img)
        w == Len(img[1])
    IN [row \in 1..w |-> [col \in 1..h |-> img[col][w + 1 - row]]]

\* image.Decode of a file: the pixels of the file, tagged by the file's name.
Decode(file, n) == [row \in 1..2 |-> [col \in 1..(2 * n) |-> <<file, row, col>>]]
\* imaging.Crop(img, tileset.GetTileRect(i)): the i-th 2x2 cell of the atlas row.
Crop(img, i) == [row \in 1..2 |-> [col \in 1..2 |-> img[row][2 * i + col]]]

\* ------------------------------------------------------------------ tilesets
\* Tileset.Image is NoImage for a tileset of per-tile images.
NoImage == "none"

\* Shared atlas: local ids 0..TileCount-1, global ids FirstGID + id.
AtlasTileset ==
    [Name |-> "A", FirstGID |-> 4, Image |-> "atlas.png", TileCount |-> 2,
     Tiles |-> <<>>]
\* Per-tile images: the ids present are those listed in Tiles.
DiscreteTileset ==
    [Name |-> "B", FirstGID |-> 1, Image |-> NoImage, TileCount |-> 3,
     Tiles |-> << [ID |-> 0, Image |-> "b0.png"], [ID |-> 2, Image |-> "b2.png"] >>]

Files == {"atlas.png", "b0.png", "b2.png"}

\* -------------------------------------------------------------------- tiles
LayerTile(ts, id, h, v, d) ==
    [Nil |-> FALSE, Tileset |-> ts, ID |-> id,
     HorizontalFlip |-> h, VerticalFlip |-> v, DiagonalFlip |-> d]
NilTile ==
    [Nil |-> TRUE, Tileset |-> AtlasTileset, ID |-> 0,
     HorizontalFlip |-> FALSE, VerticalFlip |-> FALSE, DiagonalFlip |-> FALSE]

A0 == LayerTile(AtlasTileset, 0, FALSE, FALSE, FALSE)
A1h == LayerTile(AtlasTileset, 1, TRUE, FALSE, FALSE)
A0d == LayerTile(AtlasTileset, 0, FALSE, FALSE, TRUE)
B0 == LayerTile(DiscreteTileset, 0, FALSE, FALSE, FALSE)
B2v == LayerTile(DiscreteTileset, 2, FALSE, TRUE, FALSE)
\* Tiles whose local id has no image in their tileset.
A2 == LayerTile(AtlasTileset, 2, FALSE, FALSE, FALSE)
A2h == LayerTile(AtlasTileset, 2, TRUE, FALSE, FALSE)
B1 == LayerTile(DiscreteTileset, 1, FALSE, FALSE, FALSE)

AllTiles == {A0, A1h, A0d, B0, B2v, A2, A2h, B1}

\* The tile's local id has an image in its tileset.
HasImage(tile) ==
    IF tile.Tileset.Image = NoImage
    THEN \E k \in 1..Len(tile.Tileset.Tiles) : tile.Tileset.Tiles[k].ID = tile.ID
    ELSE tile.ID < tile.Tileset.TileCount

\* ------------------------------------------------------- hexagonal engine
\* A rectangle is [x0, y0, x1, y1]; image.Rectangle{} is the empty rectangle.
EmptyRect == [x0 |-> 0, y0 |-> 0, x1 |-> 0, y1 |-> 0]
\* image.Rect(x0, y0, x1, y1) swaps the ends of an axis given in the wrong order.
Rect(x0, y0, x1, y1) ==
    [x0 |-> IF x0 <= x1 THEN x0 ELSE x1, y0 |-> IF y0 <= y1 THEN y0 ELSE y1,
     x1 |-> IF x0 <= x1 THEN x1 ELSE x0, y1 |-> IF y0 <= y1 THEN y1 ELSE y0]

HexGetFinalImageSize(mp, bounds) ==
    CASE mp.StaggerAxis = "x" ->
           LET addon == GoDiv(mp.TileWidth - mp.HexSideLength, 2)
           IN Rect(0, 0, bounds.limitX * (mp.TileWidth - addon) + addon,
                   bounds.limitY * mp.TileHeight + GoDiv(mp.TileHeight, 2))
      [] mp.StaggerAxis = "y" ->
           LET addon == GoDiv(mp.TileHeight - mp.HexSideLength, 2)
           IN Rect(0, 0, bounds.limitX * mp.TileWidth + GoDiv(mp.TileWidth, 2),
                   bounds.limitY * (mp.TileHeight - addon) + addon)
      [] OTHER -> EmptyRect

RotateTileImage(tile, img) ==
    LET t1 == IF tile.HorizontalFlip THEN FlipH(img) ELSE img
        t2 == IF tile.VerticalFlip THEN FlipV(t1) ELSE t1
    IN IF tile.DiagonalFlip THEN FlipH(Rotate90(t2)) ELSE t2

\* RotateTileImage hands a nil image to imaging.FlipH/FlipV/Rotate90, which
\* dereference it, when any flip flag is set.
RotatePanics(tile, img) ==
    img = NilImage /\ (tile.HorizontalFlip \/ tile.VerticalFlip \/ tile.DiagonalFlip)

HexGetTilePosition(mp, x, y, startOdd) ==
    LET oddCheckValue == IF startOdd THEN 0 ELSE 1
    IN CASE mp.StaggerAxis = "x" ->
              LET oddColumn == GoMod(x, 2) = oddCheckValue
                  offsetWidth == GoDiv(mp.TileWidth - mp.HexSideLength, 2) + mp.HexSideLength
                  yBump == IF oddColumn THEN GoDiv(mp.TileHeight, 2) ELSE 0
              IN Rect(x * offsetWidth, y * mp.TileHeight + yBump,
                      x * offsetWidth + mp.TileWidth, (y + 2) * mp.TileHeight + yBump)
         [] mp.StaggerAxis = "y" ->
              LET oddRow == GoMod(y, 2) = oddCheckValue
                  offsetHeight == GoDiv(mp.TileHeight - mp.HexSideLength, 2) + mp.HexSideLength
                  xBump == IF oddRow THEN GoDiv(mp.TileWidth, 2) ELSE 0
              IN Rect(x * mp.TileWidth + xBump, y * offsetHeight,
                      (x + 2) * mp.TileWidth + xBump, (y + 1) * offsetHeight + mp.TileHeight)
         [] OTHER -> EmptyRect

\* ------------------------------------------------------ orthogonal engine
\* OrthogonalRendererEngine (orthogonal.go) from its description.
OrthoGetFinalImageSize(mp, bounds) ==
    Rect(0, 0, bounds.limitX * mp.TileWidth, bounds.limitY * mp.TileHeight)

OrthoGetTilePosition(mp, x, y, startOdd) ==
    Rect(x * mp.TileWidth, y * mp.TileHeight,
         (x + 1) * mp.TileWidth, (y + 1) * mp.TileHeight)

\* ------------------------------------------------- RendererEngine dispatch
GetFinalImageSize(mp, bounds) ==
    IF mp.Orientation = "hexagonal" THEN HexGetFinalImageSize(mp, bounds)
    ELSE OrthoGetFinalImageSize(mp, bounds)

GetTilePosition(mp, x, y, startOdd) ==
    IF mp.Orientation = "hexagonal" THEN HexGetTilePosition(mp, x, y, startOdd)
    ELSE OrthoGetTilePosition(mp, x, y, startOdd)

\* ---------------------------------------------------------------- tile cache
\* tileCache is a function from the global ids cached to their images.
CachePut(cache, key, img) ==
    [k \in DOMAIN cache \cup {key} |-> IF k = key THEN img ELSE cache[k]]

\* The key getTileImage looks a tile up under.
CacheKey(tile) == tile.Tileset.FirstGID + tile.ID

\* r.open followed by image.Decode: "ok", or the error of the step that fails.
OpenDecode(fs, file) ==
    CASE fs[file] = "ok" -> "nil"
      [] fs[file] = "missing" -> "ErrOpen"
      [] OTHER -> "ErrDecode"

\* The loop of the per-tile-image branch over Tiles[k..]: st is
\* [cache, timg, err, opened].
RECURSIVE DiscreteLoop(_, _, _, _)
DiscreteLoop(fs, tile, k, st) ==
    IF k > Len(tile.Tileset.Tiles) THEN st
    ELSE IF tile.Tileset.Tiles[k].ID # tile.ID THEN DiscreteLoop(fs, tile, k + 1, st)
    ELSE LET file == tile.Tileset.Tiles[k].Image
             err == OpenDecode(fs, file)
             opened == Append(st.opened, file)
         IN IF err # "nil"
            THEN [st EXCEPT !.err = err, !.opened = opened]
            ELSE DiscreteLoop(fs, tile, k + 1,
                     [cache |-> CachePut(st.cache, tile.Tileset.FirstGID + tile.ID,
                                         Decode(file, 1)),
                      timg |-> Decode(file, 1), err |-> "nil", opened |-> opened])

\* The loop of the atlas branch over i in [0, TileCount).
RECURSIVE AtlasLoop(_, _, _, _)
AtlasLoop(tile, img, i, st) ==
    IF i >= tile.Tileset.TileCount THEN st
    ELSE LET cache == CachePut(st.cache, i + tile.Tileset.FirstGID, Crop(img, i))
         IN AtlasLoop(tile, img, i + 1,
                [st EXCEPT !.cache = cache,
                           !.timg = IF tile.ID = i THEN cache[i + tile.Tileset.FirstGID]
                                    ELSE st.timg])

\* The last step of getTileImage: return r.engine.RotateTileImage(tile, timg), nil.
Rotated(st, tile) ==
    IF RotatePanics(tile, st.timg)
    THEN [img |-> NilImage, err |-> "panic", cache |-> st.cache, opened |-> st.opened]
    ELSE [img |-> RotateTileImage(tile, st.timg), err |-> "nil",
          cache |-> st.cache, opened |-> st.opened]

\* getTileImage(tile) on cache `cache` and file system `fs`:
\* [img, err, cache, opened], opened the files handed to r.open, in order.
getTileImage(fs, cache, tile) ==
    LET key == CacheKey(tile)
        st0 == [cache |-> cache, timg |-> NilImage, err |-> "nil", opened |-> <<>>]
    IN IF key \in DOMAIN cache
       THEN Rotated([st0 EXCEPT !.timg = cache[key]], tile)
       ELSE IF tile.Tileset.Image = NoImage
       THEN LET st == DiscreteLoop(fs, tile, 1, st0)
            IN IF st.err # "nil"
               THEN [img |-> NilImage, err |-> st.err, cache |-> st.cache,
                     opened |-> st.opened]
               ELSE Rotated(st, tile)
       ELSE LET file == tile.Tileset.Image
                err == OpenDecode(fs, file)
            IN IF err # "nil"
               THEN [img |-> NilImage, err |-> err, cache |-> cache, opened |-> <<file>>]
               ELSE Rotated(AtlasLoop(tile, Decode(file, tile.Tileset.TileCount), 0,
                                      [st0 EXCEPT !.opened = <<file>>]), tile)

\* ---------------------------------------------------------- output buffer
\* The buffer is its pixel size and whether anything has been drawn into it
\* since it was allocated; the draws themselves are in the operation's log.
NewNRGBA(rect) == [w |-> rect.x1 - rect.x0, h |-> rect.y1 - rect.y0, drawn |-> FALSE]

\* draw.Draw / draw.DrawMask clip the destination rectangle to the buffer.
Intersects(pos, buf) ==
    /\ Max2(pos.x0, 0) < (IF pos.x1 < buf.w THEN pos.x1 ELSE buf.w)
    /\ Max2(pos.y0, 0) < (IF pos.y1 < buf.h THEN pos.y1 ELSE buf.h)

Draw(buf, pos, img, alpha) ==
    IF Intersects(pos, buf) THEN [buf EXCEPT !.drawn = TRUE] ELSE buf

\* --------------------------------------------------------------- compositor
\* The renderer's mutable state threaded through one operation:
\*   cache, Result   r.tileCache and r.Result
\*   err             "nil", an error's name, or "panic"
\*   got             per tile, the image its first successful getTileImage gave
\*   layers, visits, calls, draws   what the operation did, in order
Served(rs, call, tile) ==
    IF call.err = "nil" /\ tile \notin DOMAIN rs.got
    THEN [t \in DOMAIN rs.got \cup {tile} |-> IF t = tile THEN call.img ELSE rs.got[t]]
    ELSE rs.got

\* One getTileImage call made on rs, logged: what it was asked and gave, the
\* files it opened, whether it changed the cache, and what an earlier
\* successful call for the same tile gave.
CallGetTileImage(fs, rs, tile) ==
    LET call == getTileImage(fs, rs.cache, tile)
    IN [rs EXCEPT !.cache = call.cache,
                  !.err = call.err,
                  !.got = Served(rs, call, tile),
                  !.calls = Append(rs.calls,
                      [tile |-> tile, img |-> call.img, err |-> call.err,
                       opened |-> call.opened, modified |-> call.cache # rs.cache,
                       seen |-> tile \in DOMAIN rs.got,
                       first |-> IF tile \in DOMAIN rs.got THEN rs.got[tile]
                                 ELSE NilImage])]

\* uint8(layer.Opacity * 255), Opacity held in percent.
MaskAlpha(layer) == (layer.Opacity * 255) \div 100

_renderTile(mp, fs, rs, lid, layer, i, x, y, startOdd, cell) ==
    IF i + 1 \notin DOMAIN layer.Tiles THEN [rs EXCEPT !.err = "panic"]
    ELSE IF layer.Tiles[i + 1].Nil THEN rs
    ELSE LET tile == layer.Tiles[i + 1]
             rs1 == CallGetTileImage(fs, rs, tile)
             img == rs1.calls[Len(rs1.calls)].img
             pos == GetTilePosition(mp, x, y, startOdd)
             alpha == IF layer.Opacity < 100 THEN MaskAlpha(layer) ELSE 255
         IN IF rs1.err # "nil" THEN rs1
            ELSE IF img = NilImage THEN [rs1 EXCEPT !.err = "panic"]
            ELSE [rs1 EXCEPT !.Result = Draw(rs1.Result, pos, img, alpha),
                             !.draws = Append(rs1.draws,
                                 [layer |-> lid, mx |-> cell[1], my |-> cell[2],
                                  x |-> x, y |-> y, startOdd |-> startOdd,
                                  pos |-> pos, alpha |-> alpha])]

\* The inner loop of _renderLayer: for x := xs; x < xe; x++.
RECURSIVE LoopX(_, _, _, _, _, _, _, _, _, _, _)
LoopX(mp, fs, rs, lid, layer, x, y, xs, ys, xe, startOdd) ==
    IF x >= xe \/ rs.err # "nil" THEN rs
    ELSE LET i == y * mp.Width + x
             rs1 == [rs EXCEPT !.visits = Append(rs.visits,
                        [layer |-> lid, x |-> x, y |-> y, rx |-> x - xs,
                         ry |-> y - ys, i |-> i])]
         IN LoopX(mp, fs,
                  _renderTile(mp, fs, rs1, lid, layer, i, x - xs, y - ys, startOdd, <<x, y>>),
                  lid, layer, x + 1, y, xs, ys, xe, startOdd)

\* The outer loop of _renderLayer: for y := ys; y < ye; y++.
RECURSIVE LoopY(_, _, _, _, _, _, _, _, _, _, _)
LoopY(mp, fs, rs, lid, layer, y, xs, ys, xe, ye, startOdd) ==
    IF y >= ye \/ rs.err # "nil" THEN rs
    ELSE LoopY(mp, fs, LoopX(mp, fs, rs, lid, layer, xs, y, xs, ys, xe, startOdd),
               lid, layer, y + 1, xs, ys, xe, ye, startOdd)

\* if xe > r.m.Width { xe = r.m.Width }, and the same for ye.
ClipEndNone(e, size) == e
ClipEnd(e, size) == IF e > size THEN size ELSE e

\* lid names the layer in the operation's log: <<"layer", id>> or
\* <<"group", groupID, layerID>>.
_renderLayer(mp, fs, b, rs, lid, layer) ==
    LET rs0 == [rs EXCEPT !.layers = Append(rs.layers, lid)]
    IN IF (mp.Orientation = "hexagonal" \/ mp.Orientation = "orthogonal")
          /\ mp.RenderOrder = "right-down"
       THEN LET xs == b.offsetX
                xe == ClipEnd(b.offsetX + b.limitX, mp.Width)
                ys == b.offsetY
                ye == ClipEnd(b.offsetY + b.limitY, mp.Height)
                startOdd == GoMod(b.offsetY, 2) = 1
            IN LoopY(mp, fs, rs0, lid, layer, ys, xs, ys, xe, ye, startOdd)
       ELSE [rs0 EXCEPT !.err = "ErrUnsupportedRenderOrder"]

\* -------------------------------------------------------- render operations
\* Indexing a slice with a negative index is a run-time panic.
RenderGroupLayer(mp, fs, b, rs, groupID, layerID) ==
    IF groupID >= Len(mp.Groups) THEN [rs EXCEPT !.err = "ErrOutOfBounds"]
    ELSE IF groupID < 0 THEN [rs EXCEPT !.err = "panic"]
    ELSE LET group == mp.Groups[groupID + 1]
         IN IF layerID >= Len(group.Layers) THEN [rs EXCEPT !.err = "ErrOutOfBounds"]
            ELSE IF layerID < 0 THEN [rs EXCEPT !.err = "panic"]
            ELSE _renderLayer(mp, fs, b, rs, <<"group", groupID, layerID>>,
                              group.Layers[layerID + 1])

RenderLayer(mp, fs, b, rs, id) ==
    IF id >= Len(mp.Layers) THEN [rs EXCEPT !.err = "ErrOutOfBounds"]
    ELSE IF id < 0 THEN [rs EXCEPT !.err = "panic"]
    ELSE _renderLayer(mp, fs, b, rs, <<"layer", id>>, mp.Layers[id + 1])

\* if !r.m.Layers[i].Visible { continue }
SkippedNever(layer) == FALSE
Skipped(layer) == ~layer.Visible

\* The loop of RenderVisibleLayers: for i := range r.m.Layers.
RECURSIVE VisibleLoop(_, _, _, _, _)
VisibleLoop(mp, fs, b, rs, i) ==
    IF i >= Len(mp.Layers) \/ rs.err # "nil" THEN rs
    ELSE IF Skipped(mp.Layers[i + 1]) THEN VisibleLoop(mp, fs, b, rs, i + 1)
    ELSE VisibleLoop(mp, fs, b, RenderLayer(mp, fs, b, rs, i), i + 1)

RenderVisibleLayers(mp, fs, b, rs) == VisibleLoop(mp, fs, b, rs, 0)

\* ------------------------------------------------------------------- Bounds
SetLimitNonNegative(b, x, y) ==
    [b EXCEPT !.limitX = IF x >= 0 THEN x ELSE b.limitX,
              !.limitY = IF y >= 0 THEN y ELSE b.limitY]
SetLimit(b, x, y) ==
    [b EXCEPT !.limitX = IF x >= 1 THEN x ELSE b.limitX,
              !.limitY = IF y >= 1 THEN y ELSE b.limitY]

AddOffsetUnclamped(b, x, y) ==
    [b EXCEPT !.offsetX = b.offsetX + x, !.offsetY = b.offsetY + y]
AddOffset(b, x, y) ==
    [b EXCEPT !.offsetX = IF b.offsetX + x < 0 THEN 0 ELSE b.offsetX + x,
              !.offsetY = IF b.offsetY + y < 0 THEN 0 ELSE b.offsetY + y]

\* Clear: a fresh buffer of the engine's final image size for the bounds.
ClearWholeMap(mp, b) ==
    NewNRGBA(GetFinalImageSize(mp, [b EXCEPT !.limitX = mp.Width, !.limitY = mp.Height]))
Clear(mp, b) == NewNRGBA(GetFinalImageSize(mp, b))

\* --------------------------------------------------------------- the maps
\* Layer.Tiles is row-major of length Width * Height; cell k holds the
\* pattern's tiles in rotation.
Tiles(pattern, n) == [k \in 1..n |-> pattern[((k - 1) % Len(pattern)) + 1]]

Layer(pattern, n, opacity, visible) ==
    [Tiles |-> Tiles(pattern, n), Opacity |-> opacity, Visible |-> visible]

Layers(w, h) ==
    << Layer(<<A0, NilTile, A1h>>, w * h, 100, TRUE),
       Layer(<<A1h, A0>>, w * h, 100, FALSE),
       Layer(<<B0, B2v, NilTile>>, w * h, 50, TRUE),
       Layer(<<A2, B0, NilTile, A0d>>, w * h, 100, TRUE) >>

Groups(w, h) ==
    << [Layers |-> << Layer(<<B2v, B1, A0>>, w * h, 100, TRUE),
                      Layer(<<NilTile>>, w * h, 100, FALSE) >>] >>

TileSizes == { [TileWidth |-> 6, TileHeight |-> 4, HexSideLength |-> 2] }

Map(orientation, axis, order, w, h, sz) ==
    [Orientation |-> orientation, StaggerAxis |-> axis, RenderOrder |-> order,
     Width |-> w, Height |-> h, TileWidth |-> sz.TileWidth,
     TileHeight |-> sz.TileHeight, HexSideLength |-> sz.HexSideLength,
     Layers |-> Layers(w, h), Groups |-> Groups(w, h)]

Engines == {<<"hexagonal", "x">>, <<"hexagonal", "y">>, <<"orthogonal", "">>}

\* Maps of every size up to the bounds, in render order "right-down".
RightDownMaps ==
    { Map(e[1], e[2], "right-down", w, h, sz) :
        e \in Engines, w \in 1..MaxWidth, h \in 1..MaxHeight, sz \in TileSizes }

\* Maps of the largest size, one of them in an unsupported render order.
LargeMaps ==
    { Map(e[1], e[2], "right-down", MaxWidth, MaxHeight, sz) :
        e \in Engines, sz \in TileSizes }
    \cup { Map("hexagonal", "x", "left-up", MaxWidth, MaxHeight, sz) : sz \in TileSizes }

AllOk == [f \in Files |-> "ok"]

\* The file systems: every file readable, or one missing, or one undecodable.
FileSystems ==
    { AllOk,
      [f \in Files |-> IF f = "b0.png" THEN "missing" ELSE "ok"],
      [f \in Files |-> IF f = "atlas.png" THEN "corrupt" ELSE "ok"] }

\* ---------------------------------------------------------------- the state
VARIABLES
    m,             \* r.m, the map
    fsys,          \* r.fs, each file's state
    ResultBounds,  \* r.ResultBounds
    Result,        \* r.Result
    tileCache,     \* r.tileCache
    allocated,     \* the ResultBounds r.Result was allocated for
    got,           \* per tile, the image its first successful getTileImage gave
    last,          \* the last operation: its name, arguments, outcome and log
    prev           \* ResultBounds, Result and tileCache before the last operation

vars == <<m, fsys, ResultBounds, Result, tileCache, allocated, got, last, prev>>

EmptyMap == [k \in {} |-> NilImage]

Snapshot == [ResultBounds |-> ResultBounds, Result |-> Result, tileCache |-> tileCache]

Log(op, args, rs) ==
    [op |-> op, args |-> args, err |-> rs.err, layers |-> rs.layers,
     visits |-> rs.visits, calls |-> rs.calls, draws |-> rs.draws]

\* The renderer's state at the start of an operation, with an empty log.
Start ==
    [cache |-> tileCache, Result |-> Result, err |-> "nil", got |-> got,
     layers |-> <<>>, visits |-> <<>>, calls |-> <<>>, draws |-> <<>>]

\* NewRendererWithFileSystem(mp, fs) on a map of a supported orientation.
NewRenderer(mp, fs) ==
    /\ m = mp
    /\ fsys = fs
    /\ ResultBounds = [offsetX |-> 0, offsetY |-> 0, limitX |-> mp.Width, limitY |-> mp.Height]
    /\ Result = Clear(mp, ResultBounds)
    /\ allocated = ResultBounds
    /\ tileCache = EmptyMap
    /\ got = EmptyMap
    /\ last = Log("NewRenderer", <<>>, Start)
    /\ prev = Snapshot

\* A render operation that ended as rs.
Commit(op, args, rs) ==
    /\ tileCache' = rs.cache
    /\ Result' = rs.Result
    /\ last' = Log(op, args, rs)
    /\ prev' = Snapshot
    /\ UNCHANGED <<m, fsys, ResultBounds, allocated, got>>

\* The same, remembering the image each tile's first successful call gave.
CommitCached(op, args, rs) ==
    /\ tileCache' = rs.cache
    /\ Result' = rs.Result
    /\ got' = rs.got
    /\ last' = Log(op, args, rs)
    /\ prev' = Snapshot
    /\ UNCHANGED <<m, fsys, ResultBounds, allocated>>

LimitArgs == -1..MaxArg
OffsetArgs == -MaxDelta..MaxDelta
\* Layer and group indices: every valid one, -1 and the length.
LayerIDs == -1..Len(m.Layers)
GroupIDs == -1..Len(m.Groups)
GroupLayerIDs == -1..Len(m.Groups[1].Layers)

DoSetLimit(xs, ys) ==
    \E x \in xs, y \in ys :
        /\ ResultBounds' = SetLimit(ResultBounds, x, y)
        /\ last' = Log("SetLimit", <<x, y>>, Start)
        /\ prev' = Snapshot
        /\ UNCHANGED <<m, fsys, Result, tileCache, allocated, got>>

DoAddOffset(dxs, dys) ==
    \E x \in dxs, y \in dys :
        /\ ResultBounds.offsetX + x <= MaxOffset
        /\ ResultBounds.offsetY + y <= MaxOffset
        /\ ResultBounds' = AddOffset(ResultBounds, x, y)
        /\ last' = Log("AddOffset", <<x, y>>, Start)
        /\ prev' = Snapshot
        /\ UNCHANGED <<m, fsys, Result, tileCache, allocated, got>>

DoClear ==
    /\ Result' = Clear(m, ResultBounds)
    /\ allocated' = ResultBounds
    /\ last' = Log("Clear", <<>>, Start)
    /\ prev' = Snapshot
    /\ UNCHANGED <<m, fsys, ResultBounds, tileCache, got>>

DoRenderLayer(ids) ==
    \E id \in ids :
        Commit("RenderLayer", <<id>>, RenderLayer(m, fsys, ResultBounds, Start, id))

DoRenderGroupLayer(gids, lids) ==
    \E g \in gids, l \in lids :
        Commit("RenderGroupLayer", <<g, l>>,
               RenderGroupLayer(m, fsys, ResultBounds, Start, g, l))

DoRenderVisibleLayers ==
    Commit("RenderVisibleLayers", <<>>, RenderVisibleLayers(m, fsys, ResultBounds, Start))

DoGetTileImage ==
    \E tile \in AllTiles :
        CommitCached("getTileImage", <<tile>>, CallGetTileImage(fsys, Start, tile))

DoRenderLayerCached ==
    \E id \in 0..(Len(m.Layers) - 1) :
        CommitCached("RenderLayer", <<id>>, RenderLayer(m, fsys, ResultBounds, Start, id))

\* ------------------------------------------------------- the specifications
\* The viewport alone: SetLimit and AddOffset with positive, zero and
\* negative arguments on maps of every size.
InitBounds ==
    \E w \in 1..MaxWidth, h \in 1..MaxHeight, sz \in TileSizes :
        NewRenderer(Map("hexagonal", "x", "right-down", w, h, sz), AllOk)
NextBounds ==
    \/ DoSetLimit(LimitArgs, LimitArgs)
    \/ DoAddOffset(OffsetArgs, OffsetArgs)
SpecBounds == InitBounds /\ [][NextBounds]_vars

\* Single layers rendered under every viewport SetLimit and AddOffset reach,
\* on maps of every size and engine.
InitView == \E mp \in RightDownMaps : NewRenderer(mp, AllOk)
NextView ==
    \/ DoSetLimit(1..MaxArg, 1..MaxArg)
    \/ DoAddOffset({0, 1}, {0, 1})
    \/ DoRenderLayer({0, 3})
SpecView == InitView /\ [][NextView]_vars

\* The buffer's allocation: SetLimit, AddOffset, a render and Clear.
InitAlloc == \E mp \in LargeMaps : NewRenderer(mp, AllOk)
NextAlloc ==
    \/ DoSetLimit(LimitArgs, {-1, 1})
    \/ DoAddOffset({-1, 1}, {0})
    \/ DoClear
    \/ DoRenderLayer({0})
SpecAlloc == InitAlloc /\ [][NextAlloc]_vars

\* The render operations and Clear, with files that fail to open or decode.
InitRender == \E mp \in LargeMaps, fs \in FileSystems : NewRenderer(mp, fs)
NextRender ==
    \/ DoAddOffset({0, 1}, {1})
    \/ DoClear
    \/ DoRenderLayer(LayerIDs)
    \/ DoRenderGroupLayer(GroupIDs, GroupLayerIDs)
    \/ DoRenderVisibleLayers
SpecRender == InitRender /\ [][NextRender]_vars

\* The tile cache: getTileImage called directly and from RenderLayer.
InitCache == \E mp \in LargeMaps, fs \in FileSystems : NewRenderer(mp, fs)
NextCache ==
    \/ DoGetTileImage
    \/ DoRenderLayerCached
SpecCache == InitCache /\ [][NextCache]_vars

\* ------------------------------------------------------------------ claims
Min2(a, b) == IF a <= b THEN a ELSE b
Arg(k) == last.args[k]
RangeOf(seq) == {seq[k] : k \in 1..Len(seq)}

\* C1: after any sequence of AddOffset and SetLimit calls both offsets are >= 0,
\* and AddOffset(x, y) sets each axis to max(0, previous offset + delta) and
\* leaves both limits as they were.
C1_AddOffsetClamps ==
    /\ ResultBounds.offsetX >= 0
    /\ ResultBounds.offsetY >= 0
    /\ last.op = "AddOffset" =>
         /\ ResultBounds.offsetX = Max2(0, prev.ResultBounds.offsetX + Arg(1))
         /\ ResultBounds.offsetY = Max2(0, prev.ResultBounds.offsetY + Arg(2))
         /\ ResultBounds.limitX = prev.ResultBounds.limitX
         /\ ResultBounds.limitY = prev.ResultBounds.limitY

\* AddOffset with a negative x that would pass zero and a positive y.
C1_Witness ==
    /\ last.op = "AddOffset"
    /\ prev.ResultBounds.offsetX + Arg(1) < 0
    /\ ResultBounds.offsetX = 0
    /\ Arg(2) > 0
    /\ ResultBounds.offsetY = prev.ResultBounds.offsetY + Arg(2)

\* C2: SetLimit(x, y) sets limitX to x exactly when x >= 1 and limitY to y
\* exactly when y >= 1, keeps the previous limit otherwise and never changes
\* the offsets; so both limits stay >= 1 on a map of width and height >= 1.
C2_SetLimitPositiveOnly ==
    /\ ResultBounds.limitX >= 1
    /\ ResultBounds.limitY >= 1
    /\ last.op = "SetLimit" =>
         /\ Arg(1) >= 1 => ResultBounds.limitX = Arg(1)
         /\ Arg(1) < 1 => ResultBounds.limitX = prev.ResultBounds.limitX
         /\ Arg(2) >= 1 => ResultBounds.limitY = Arg(2)
         /\ Arg(2) < 1 => ResultBounds.limitY = prev.ResultBounds.limitY
         /\ ResultBounds.offsetX = prev.ResultBounds.offsetX
         /\ ResultBounds.offsetY = prev.ResultBounds.offsetY

\* SetLimit with a non-positive x, which is ignored, and a new positive y.
C2_Witness ==
    /\ last.op = "SetLimit"
    /\ Arg(1) < 1
    /\ ResultBounds.limitX = prev.ResultBounds.limitX
    /\ Arg(2) >= 1
    /\ Arg(2) # prev.ResultBounds.limitY
    /\ ResultBounds.limitY = Arg(2)

\* An operation that returned ErrOutOfBounds and did nothing else.
RejectedUntouched ==
    /\ last.err = "ErrOutOfBounds"
    /\ Result = prev.Result
    /\ tileCache = prev.tileCache
    /\ last.layers = <<>> /\ last.visits = <<>>
    /\ last.calls = <<>> /\ last.draws = <<>>

\* C3: RenderLayer(id) with id >= len(layers), and RenderGroupLayer with a
\* group or layer index at or above the length or negative, returns
\* ErrOutOfBounds, renders nothing and leaves buffer and cache as they were.
C3_OutOfRangeRejected ==
    /\ (last.op = "RenderLayer" /\ Arg(1) >= Len(m.Layers)) => RejectedUntouched
    /\ (last.op = "RenderGroupLayer"
          /\ \/ Arg(1) < 0
             \/ Arg(1) >= Len(m.Groups)
             \/ Arg(2) < 0
             \/ Arg(2) >= Len(m.Groups[Arg(1) + 1].Layers)) => RejectedUntouched

SizeOf(rect) == <<rect.x1 - rect.x0, rect.y1 - rect.y0>>
BufferSize == <<Result.w, Result.h>>

\* C4 as claimed: in every reachable state the buffer's pixel size is
\* GetFinalImageSize of the current ResultBounds.
C4_BufferFollowsBounds == BufferSize = SizeOf(GetFinalImageSize(m, ResultBounds))

\* C4 as amended: the buffer's size is GetFinalImageSize of the bounds it
\* was allocated for; only construction and Clear allocate, each for the
\* bounds current then and with nothing drawn; any other operation leaves
\* the size as it was.
C4_BufferAllocatedByClear ==
    /\ BufferSize = SizeOf(GetFinalImageSize(m, allocated))
    /\ last.op \in {"NewRenderer", "Clear"} =>
         /\ BufferSize = SizeOf(GetFinalImageSize(m, ResultBounds))
         /\ ~Result.drawn
    /\ last.op \notin {"NewRenderer", "Clear"} =>
         <<prev.Result.w, prev.Result.h>> = BufferSize

\* A Clear that resized a buffer SetLimit had left at the old size.
C4_Witness ==
    /\ last.op = "Clear"
    /\ <<prev.Result.w, prev.Result.h>> # BufferSize
    /\ prev.Result.drawn

\* What a second call owes the first: no file opened, the same image, the
\* cache left alone.
FromCache(c) ==
    /\ c.opened = <<>>
    /\ c.err = "nil"
    /\ c.img = c.first
    /\ ~c.modified

\* C5: once a getTileImage call for a tile has succeeded, a later call for
\* the same tile opens no file, returns the same image and leaves the cache
\* as it was.
C5_SecondCallFromCache ==
    /\ \A k \in 1..Len(last.calls) : last.calls[k].seen => FromCache(last.calls[k])
    /\ (last.op = "getTileImage" /\ last.calls[1].seen) => tileCache = prev.tileCache

\* C5 for the tiles whose id has an image in their tileset, where it holds.
C5_SecondCallFromCacheWithImage ==
    /\ \A k \in 1..Len(last.calls) :
         (last.calls[k].seen /\ HasImage(last.calls[k].tile)) => FromCache(last.calls[k])
    /\ (last.op = "getTileImage" /\ last.calls[1].seen /\ HasImage(Arg(1))) =>
         tileCache = prev.tileCache

\* The top-level layers RenderVisibleLayers has to render, in stored order.
RECURSIVE VisibleFrom(_)
VisibleFrom(i) ==
    IF i >= Len(m.Layers) THEN <<>>
    ELSE IF m.Layers[i + 1].Visible THEN <<<<"layer", i>>>> \o VisibleFrom(i + 1)
    ELSE VisibleFrom(i + 1)

\* The cells of the viewport that lie on the map.
ViewCells ==
    { c \in (0..(m.Width - 1)) \X (0..(m.Height - 1)) :
        /\ ResultBounds.offsetX <= c[1]
        /\ c[1] < Min2(ResultBounds.offsetX + ResultBounds.limitX, m.Width)
        /\ ResultBounds.offsetY <= c[2]
        /\ c[2] < Min2(ResultBounds.offsetY + ResultBounds.limitY, m.Height) }

VisitsOf(lid) == SelectSeq(last.visits, LAMBDA v : v.layer = lid)

\* C6: RenderVisibleLayers renders the visible top-level layers, each once,
\* in stored order and never an invisible one, into the one buffer without
\* reallocating it; when a layer fails the failure is the call's outcome,
\* the layers before it were rendered in full and none after it is rendered.
C6_VisibleLayersInOrder ==
    last.op = "RenderVisibleLayers" =>
      LET want == VisibleFrom(0)
          n == Len(last.layers)
      IN /\ n <= Len(want)
         /\ last.layers = SubSeq(want, 1, n)
         /\ last.err = "nil" => n = Len(want)
         /\ last.err # "nil" => n >= 1
         /\ \A k \in 1..n :
              (k < n \/ last.err = "nil") =>
                 Len(VisitsOf(last.layers[k])) = Cardinality(ViewCells)
         /\ \A k \in 1..Len(last.draws) : last.draws[k].layer \in RangeOf(last.layers)
         /\ <<Result.w, Result.h>> = <<prev.Result.w, prev.Result.h>>
         /\ Result.drawn =
              (prev.Result.drawn
                 \/ \E k \in 1..Len(last.draws) : Intersects(last.draws[k].pos, prev.Result))

\* A call that rendered all three visible layers, drawing tiles of two of them.
C6_Witness ==
    /\ last.op = "RenderVisibleLayers"
    /\ last.err = "nil"
    /\ Len(last.layers) = 3
    /\ \E j, k \in 1..Len(last.draws) : last.draws[j].layer # last.draws[k].layer
    /\ prev.Result.drawn

\* The half-tile bump of a destination rectangle drawn at viewport (x, y).
BumpOf(pos, x, y) ==
    IF m.StaggerAxis = "x" THEN pos.y0 - y * m.TileHeight
    ELSE pos.x0 - x * m.TileWidth

\* C7: on a hexagonal map every cell drawn under any viewport offset gets the
\* half-tile bump it gets when the map is rendered with offset (0, 0).
C7_StaggerAnchoredToMap ==
    m.Orientation = "hexagonal" =>
      \A k \in 1..Len(last.draws) :
        LET d == last.draws[k]
        IN BumpOf(d.pos, d.x, d.y)
             = BumpOf(HexGetTilePosition(m, d.mx, d.my, FALSE), d.mx, d.my)

\* The tiles a tileset holds, as global ids.
TilesetKeys(ts) ==
    IF ts.Image = NoImage
    THEN {ts.FirstGID + ts.Tiles[k].ID : k \in 1..Len(ts.Tiles)}
    ELSE {ts.FirstGID + i : i \in 0..(ts.TileCount - 1)}

\* C8: a getTileImage call that succeeds on a cache miss leaves every tile of
\* the owning tileset cached, for an atlas and for per-tile images alike.
C8_WholeTilesetCached ==
    (/\ last.op = "getTileImage"
     /\ last.err = "nil"
     /\ CacheKey(Arg(1)) \notin DOMAIN prev.tileCache)
      => TilesetKeys(Arg(1).Tileset) \subseteq DOMAIN tileCache

\* The number of viewport cells before c in row-major order.
RankOf(c) ==
    Cardinality({d \in ViewCells : d[2] < c[2] \/ (d[2] = c[2] /\ d[1] < c[1])})

\* C9: in render order "right-down" a layer render visits the cells of the
\* viewport that lie on the map, each once and in row-major order, with
\* viewport-relative coordinates and a tile index inside [0, W*H): all of
\* them when it returns nil, and up to the failing cell otherwise; a viewport
\* at or beyond the map edge visits nothing and returns nil.
C9_VisitsViewportCells ==
    (last.op = "RenderLayer" /\ m.RenderOrder = "right-down") =>
      /\ \A k \in 1..Len(last.visits) :
           LET v == last.visits[k]
           IN /\ <<v.x, v.y>> \in ViewCells
              /\ RankOf(<<v.x, v.y>>) = k - 1
              /\ v.rx = v.x - ResultBounds.offsetX
              /\ v.ry = v.y - ResultBounds.offsetY
              /\ v.i = v.y * m.Width + v.x
              /\ 0 <= v.i /\ v.i < m.Width * m.Height
      /\ last.err = "nil" => Len(last.visits) = Cardinality(ViewCells)
      /\ (ResultBounds.offsetX >= m.Width \/ ResultBounds.offsetY >= m.Height) =>
           (last.visits = <<>> /\ last.err = "nil")

\* A panned viewport that overhangs the map edge, rendered in full.
C9_Witness ==
    /\ last.op = "RenderLayer"
    /\ last.err = "nil"
    /\ ResultBounds.offsetX > 0
    /\ ResultBounds.offsetX + ResultBounds.limitX > m.Width
    /\ Len(last.visits) >= 2
    /\ Len(last.draws) >= 1

\* C10: every getTileImage call ends with an error or with an image.
C10_ErrorOrImage ==
    \A k \in 1..Len(last.calls) :
      LET c == last.calls[k]
      IN \/ c.err \in {"ErrOpen", "ErrDecode"}
         \/ (c.err = "nil" /\ c.img # NilImage)

====
